---------------------------- MODULE Spec2Model ----------------------------
(***************************************************************************)
(* getohlcpy: minute OHLCV candles fetched from the quote service,         *)
(* normalised to an OpenTime-keyed DataFrame, gap-filled, merged with a    *)
(* CSV archive and memoised in a pickle cache.                             *)
(*                                                                         *)
(* A DataFrame is a sequence of rows; a row is a record with the index     *)
(* OpenTime and the six columns.  A timestamp is the record                *)
(* [epoch, utcoffset]: the instant in seconds and the offset of its        *)
(* timezone; pandas compares, sorts and matches timezone-aware timestamps  *)
(* by instant.  A float is an integer here; NaN is its own value.          *)
(***************************************************************************)
EXTENDS Integers, Sequences, FiniteSets, TLC

VARIABLES
    archive,    \* the file at the archive location (absent, zero bytes, or CSV text)
    cache,      \* the file at pkl_cashe_path (absent or a pickled DataFrame)
    call,       \* the last call: function, the fetched payload's close times, arguments
    ret,        \* what the last call returned or raised
    fetches     \* number of HTTP GETs issued so far

vars == <<archive, cache, call, ret, fetches>>

---------------------------------------------------------------------------
(* Bounds of the model. *)

\* Minutes 0..MaxT are the candles the quote service may deliver (Spec).
MaxT == 2
\* Calls per behaviour (Spec); every call is counted in call.n.
MaxCalls == 2
\* The same two bounds for the behaviours with the pickle cache (SpecCache).
MaxCacheT == 1
MaxCacheCalls == 2
\* Half-minutes 0..MaxHalf are the close times of the gap-fill inputs (SpecFill).
MaxHalf == 8

---------------------------------------------------------------------------
(* Constants of the program. *)

\* params = {'periods': 60, ...} and df['CloseTime'] - int(60)
PERIOD == 60
\* TZ_JTC = timezone(timedelta(hours=+9)), in seconds
TZ_JTC == 9 * 3600
\* numpy's NaN, which the outer merge puts in the cells of an absent minute.
NaN == -1
\* the header to_csv writes: the index name, then the columns _reformat keeps
CSV_HEADER == <<"OpenTime", "Open", "High", "Low", "Close", "Volume", "QuoteVolume">>

---------------------------------------------------------------------------
(* Helpers. *)

Max(S) == CHOOSE x \in S : \A y \in S : y <= x
Min(S) == CHOOSE x \in S : \A y \in S : x <= y

\* The elements of a finite set of integers, ascending.
RECURSIVE SortedSeq(_)
SortedSeq(S) == IF S = {} THEN <<>> ELSE <<Min(S)>> \o SortedSeq(S \ {Min(S)})

Range(s) == {s[i] : i \in 1..Len(s)}

Ok(df) == [status |-> "ok", value |-> df, error |-> ""]
Raise(e) == [status |-> "raise", value |-> <<>>, error |-> e]

\* df.index, as instants
Keys(df) == [i \in 1..Len(df) |-> df[i].OpenTime.epoch]
KeySet(df) == Range(Keys(df))

---------------------------------------------------------------------------
(* The quote service. *)

\* One candle [CloseTime, Open, High, Low, Close, Volume, QuoteVolume] as the
\* service quotes it at fetch ver: numbers, with prices that differ from
\* minute to minute and from fetch to fetch (the latest candle may still be
\* partial) and a volume that is not zero.
RawRow(ct, ver) ==
    LET p == 1000 * ver + ct
    IN  <<ct, p, p + 3, p - 2, p + 1, 5 * (ver + 1), 50 * (ver + 1)>>

\* requests.get(url, params).json()['result']: one period key, rows ascending
\* by CloseTime.
_get_ohlc_response(times, ver) ==
    LET cts == SortedSeq(times)
    IN  [period |-> PERIOD, rows |-> [i \in 1..Len(cts) |-> RawRow(cts[i], ver)]]

\* pd.DataFrame(data=json[period], columns=[...]): positional fields to named columns.
_response_to_df(res) ==
    [i \in 1..Len(res.rows) |->
        LET row == res.rows[i]
        IN  [CloseTime |-> row[1], Open |-> row[2], High |-> row[3], Low |-> row[4],
             Close |-> row[5], Volume |-> row[6], QuoteVolume |-> row[7]]]

\* pd.to_datetime(x, unit='s', utc=True)
to_datetime(secs) == [epoch |-> secs, utcoffset |-> 0]
\* .dt.tz_convert(tz): the same instant, shown in another timezone
tz_convert(ts, tz) == [epoch |-> ts.epoch, utcoffset |-> tz]

_reformat(df) ==
    [i \in 1..Len(df) |->
        [OpenTime    |-> tz_convert(to_datetime(df[i].CloseTime - PERIOD), TZ_JTC),
         Open        |-> df[i].Open,
         High        |-> df[i].High,
         Low         |-> df[i].Low,
         Close       |-> df[i].Close,
         Volume      |-> df[i].Volume,
         QuoteVolume |-> df[i].QuoteVolume]]

---------------------------------------------------------------------------
(* Gap filling. *)

\* pd.date_range(start, end, freq='1min'): start, start + 60 s, ... up to end.
date_range(start, end) ==
    IF end.epoch < start.epoch THEN <<>>
    ELSE [i \in 1..((end.epoch - start.epoch) \div 60 + 1) |->
            [epoch |-> start.epoch + 60 * (i - 1), utcoffset |-> start.utcoffset]]

NaNRow(ts) ==
    [OpenTime |-> ts, Open |-> NaN, High |-> NaN, Low |-> NaN,
     Close |-> NaN, Volume |-> NaN, QuoteVolume |-> NaN]

\* df.merge(ts, how='outer', right_index=True, left_index=True), ts dropped:
\* the union of the two indexes, ascending; a key of df keeps df's rows, a
\* key only in the date range gets a row of NaN.
RECURSIVE OuterRows(_, _, _)
OuterRows(df, date, ks) ==
    IF ks = <<>> THEN <<>>
    ELSE LET k    == Head(ks)
             mine == SelectSeq(df, LAMBDA r : r.OpenTime.epoch = k)
             gen  == SelectSeq(date, LAMBDA t : t.epoch = k)
         IN  (IF mine # <<>> THEN mine ELSE <<NaNRow(gen[1])>>)
             \o OuterRows(df, date, Tail(ks))

\* how='left' instead of 'outer': only the rows df has
merge_left(df, date) == df

merge_outer(df, date) ==
    OuterRows(df, date, SortedSeq(KeySet(df) \cup {date[i].epoch : i \in 1..Len(date)}))

\* 'bfill' instead of 'ffill': a NaN takes the next value after it that is not NaN
ffill_from_next(s) ==
    [i \in 1..Len(s) |->
        LET known == {j \in i..Len(s) : s[j] # NaN}
        IN  IF known = {} THEN NaN ELSE s[Min(known)]]

\* Series.interpolate('ffill'): a NaN takes the last value before it that is not NaN.
ffill(s) ==
    [i \in 1..Len(s) |->
        LET known == {j \in 1..i : s[j] # NaN}
        IN  IF known = {} THEN NaN ELSE s[Max(known)]]

\* interpolate(axis=1, method='bfill') on one row of the first four columns:
\* a NaN takes the next value to its right that is not NaN.
bfill(s) ==
    [i \in 1..Len(s) |->
        LET known == {j \in i..Len(s) : s[j] # NaN}
        IN  IF known = {} THEN NaN ELSE s[Min(known)]]

fillna(v, x) == IF v = NaN THEN x ELSE v

\* _fillna_ohlcv after its first line (df is not empty there).
FillRows(df) ==
    LET date   == date_range(df[1].OpenTime, df[Len(df)].OpenTime)
        merged == merge_outer(df, date)
        close  == ffill([i \in 1..Len(merged) |-> merged[i].Close])
    IN  [i \in 1..Len(merged) |->
            LET r    == merged[i]
                ohlc == bfill(<<r.Open, r.High, r.Low, close[i]>>)
            IN  [OpenTime    |-> r.OpenTime,
                 Open        |-> ohlc[1],
                 High        |-> ohlc[2],
                 Low         |-> ohlc[3],
                 Close       |-> ohlc[4],
                 Volume      |-> fillna(r.Volume, 0),
                 QuoteVolume |-> fillna(r.QuoteVolume, 0)]]

\* df.index[0] of an empty frame raises IndexError before anything is filled.
_fillna_ohlcv(df) ==
    IF Len(df) = 0 THEN Raise("IndexError") ELSE Ok(FillRows(df))

get_ohlcv(res) == _fillna_ohlcv(_reformat(_response_to_df(res)))

---------------------------------------------------------------------------
(* The store: the CSV archive and the pickle cache. *)

\* A file: absent, or text with a header line and data lines (zero bytes:
\* no header and no lines).
NoFile == [exists |-> FALSE, header |-> <<>>, lines |-> <<>>]
ZeroBytes == [exists |-> TRUE, header |-> <<>>, lines |-> <<>>]
\* text that is no archive but that read_csv accepts: the single line "hello"
Garbage == [exists |-> TRUE, header |-> <<"hello">>, lines |-> <<>>]

NoPickle == [exists |-> FALSE, data |-> <<>>]

\* str(Timestamp): the wall clock of its timezone and the offset, "...+09:00"
FormatTimestamp(ts) == [wall |-> ts.epoch + ts.utcoffset, offset |-> ts.utcoffset]
\* parse_dates=True on the index column: back to the instant, offset kept
ParseTimestamp(txt) == [epoch |-> txt.wall - txt.offset, utcoffset |-> txt.offset]

\* to_csv writes NaN as the empty field and a float by its repr
FormatFloat(v) == IF v = NaN THEN [empty |-> TRUE, repr |-> 0] ELSE [empty |-> FALSE, repr |-> v]
ParseFloat(txt) == IF txt.empty THEN NaN ELSE txt.repr

\* df.to_csv(archive_file): the whole file is rewritten
to_csv(df) ==
    [exists |-> TRUE,
     header |-> CSV_HEADER,
     lines  |-> [i \in 1..Len(df) |->
                    <<FormatTimestamp(df[i].OpenTime), FormatFloat(df[i].Open),
                      FormatFloat(df[i].High), FormatFloat(df[i].Low),
                      FormatFloat(df[i].Close), FormatFloat(df[i].Volume),
                      FormatFloat(df[i].QuoteVolume)>>]]

\* One data line under the header to_csv writes: column 0 is the index, parsed
\* as a date, the others are floats under their names.
ParseLine(line) ==
    [OpenTime    |-> ParseTimestamp(line[1]),
     Open        |-> ParseFloat(line[2]),
     High        |-> ParseFloat(line[3]),
     Low         |-> ParseFloat(line[4]),
     Close       |-> ParseFloat(line[5]),
     Volume      |-> ParseFloat(line[6]),
     QuoteVolume |-> ParseFloat(line[7])]

\* pd.read_csv(archive_file, header=0, index_col=0, parse_dates=True): no file
\* and a file with no header line raise; a header with no data lines is an
\* empty frame, whatever the header says.
load_ohlcv(file) ==
    IF ~file.exists THEN Raise("FileNotFoundError")
    ELSE IF file.header = <<>> THEN Raise("EmptyDataError")
    ELSE Ok([i \in 1..Len(file.lines) |-> ParseLine(file.lines[i])])

\* df.to_pickle / pd.read_pickle: the frame itself, as an opaque snapshot
to_pickle(df) == [exists |-> TRUE, data |-> df]
read_pickle(file) == file.data

\* os.path.exists(archive_file), os.path.isfile(pkl_cashe_path)
os_path_exists(file) == file.exists
os_path_isfile(file) == file.exists

---------------------------------------------------------------------------
(* The archive merge and the entry points. *)

\* df_cashe.index[:-1]
AllButLast(s) == IF Len(s) = 0 THEN <<>> ELSE SubSeq(s, 1, Len(s) - 1)

\* the boundary row dropped on the archive side, also when no fresh row replaces it
_csv_merge_drop_boundary(df, file) ==
    LET loaded == load_ohlcv(file)
    IN  IF loaded.status = "raise" THEN loaded
        ELSE LET df_cashe == loaded.value
                 known    == Range(AllButLast(Keys(df_cashe)))
                 df_diff  == SelectSeq(df, LAMBDA r : r.OpenTime.epoch \notin known)
             IN  Ok(AllButLast(df_cashe) \o df_diff)

\* the ~ of the row filter forgotten: the fresh rows the archive already has are kept
_csv_merge_no_negation(df, file) ==
    LET loaded == load_ohlcv(file)
    IN  IF loaded.status = "raise" THEN loaded
        ELSE LET df_cashe == loaded.value
                 known    == Range(AllButLast(Keys(df_cashe)))
                 df_diff  == SelectSeq(df, LAMBDA r : r.OpenTime.epoch \in known)
             IN  Ok(df_cashe \o df_diff)

_csv_merge(df, file) ==
    LET loaded == load_ohlcv(file)
    IN  IF loaded.status = "raise" THEN loaded
        ELSE LET df_cashe == loaded.value
                 known    == Range(AllButLast(Keys(df_cashe)))
                 df_diff  == SelectSeq(df, LAMBDA r : r.OpenTime.epoch \notin known)
             IN  Ok(df_cashe \o df_diff)

\* archive_file=None, or the one archive location
None == "None"
ARCHIVE_PATH == "csv/ohlcv-btcfxjpy.csv"
isinstance_str(x) == x # None

\* [ret, archive]: what the call returns or raises, and the archive file after it
get_ohlcv_with_archive(res, archive_file, archive_update, file) ==
    LET fresh == get_ohlcv(res)
    IN  IF fresh.status = "raise" THEN [ret |-> fresh, archive |-> file]
        ELSE IF isinstance_str(archive_file) /\ os_path_exists(file)
        THEN LET merged == _csv_merge(fresh.value, file)
             IN  IF merged.status = "raise" THEN [ret |-> merged, archive |-> file]
                 ELSE [ret     |-> merged,
                       archive |-> IF archive_update THEN to_csv(merged.value) ELSE file]
        ELSE [ret |-> fresh, archive |-> file]

\* the cache file never looked at: every call runs the pipeline and rewrites the cache
load_ohlcv_with_cashe_refetch(res, pkl, archive_file, archive_update, file) ==
    LET r == get_ohlcv_with_archive(res, archive_file, archive_update, file)
    IN  [ret     |-> r.ret,
         archive |-> r.archive,
         cache   |-> IF r.ret.status = "ok" THEN to_pickle(r.ret.value) ELSE pkl,
         fetched |-> TRUE]

\* [ret, archive, cache, fetched]
load_ohlcv_with_cashe(res, pkl, archive_file, archive_update, file) ==
    IF os_path_isfile(pkl)
    THEN [ret |-> Ok(read_pickle(pkl)), archive |-> file, cache |-> pkl, fetched |-> FALSE]
    ELSE LET r == get_ohlcv_with_archive(res, archive_file, archive_update, file)
         IN  [ret     |-> r.ret,
              archive |-> r.archive,
              cache   |-> IF r.ret.status = "ok" THEN to_pickle(r.ret.value) ELSE pkl,
              fetched |-> TRUE]

---------------------------------------------------------------------------
(* The state machine. *)

\* The close times the service may deliver: minute m closes at 60 * (m + 1).
Minutes == 0..MaxT
CacheMinutes == 0..MaxCacheT
CloseTimes(ms) == {PERIOD * (m + 1) : m \in ms}

\* An archive left by earlier runs: the gap-free candles of minutes a..b, as
\* quoted at fetch 0.
ArchiveOf(a, b) ==
    to_csv(get_ohlcv(_get_ohlc_response(CloseTimes(a..b), 0)).value)

\* The archive location before the first call: nothing, an empty file, text
\* that is no archive, or an archive.
InitialArchives(minutes) ==
    {NoFile, ZeroBytes, Garbage}
        \cup {ArchiveOf(ab[1], ab[2]) : ab \in {x \in minutes \X minutes : x[1] <= x[2]}}

NoCall ==
    [n |-> 0, op |-> "none", times |-> {}, archive_file |-> None,
     archive_update |-> FALSE, fetched |-> FALSE]
NoRet == [status |-> "none", value |-> <<>>, error |-> ""]

Init ==
    /\ archive \in InitialArchives(Minutes)
    /\ cache = NoPickle
    /\ call = NoCall
    /\ ret = NoRet
    /\ fetches = 0

\* The payload of the next fetch.
Response(times) == _get_ohlc_response(times, fetches + 1)

GetOhlcv(times) ==
    /\ call' = [n |-> call.n + 1, op |-> "get_ohlcv", times |-> times,
                archive_file |-> None, archive_update |-> FALSE, fetched |-> TRUE]
    /\ ret' = get_ohlcv(Response(times))
    /\ fetches' = fetches + 1
    /\ UNCHANGED <<archive, cache>>

GetOhlcvWithArchive(times, archive_file, archive_update) ==
    \E r \in {get_ohlcv_with_archive(Response(times), archive_file, archive_update, archive)} :
        /\ call' = [n |-> call.n + 1, op |-> "get_ohlcv_with_archive", times |-> times,
                    archive_file |-> archive_file, archive_update |-> archive_update,
                    fetched |-> TRUE]
        /\ ret' = r.ret
        /\ archive' = r.archive
        /\ fetches' = fetches + 1
        /\ UNCHANGED cache

\* No fetch is made on a cache hit: the call then has no payload.
LoadOhlcvWithCashe(times, archive_file, archive_update) ==
    \E r \in {load_ohlcv_with_cashe(Response(times), cache, archive_file, archive_update, archive)} :
        /\ call' = [n |-> call.n + 1, op |-> "load_ohlcv_with_cashe",
                    times |-> IF r.fetched THEN times ELSE {},
                    archive_file |-> archive_file, archive_update |-> archive_update,
                    fetched |-> r.fetched]
        /\ ret' = r.ret
        /\ archive' = r.archive
        /\ cache' = r.cache
        /\ fetches' = IF r.fetched THEN fetches + 1 ELSE fetches

\* A call's inputs: the minutes the fetch delivers, archive_file, archive_update.
Inputs(minutes) == (SUBSET minutes) \X {None, ARCHIVE_PATH} \X BOOLEAN

CallGetOhlcvWithArchive(minutes, maxcalls) ==
    /\ call.n < maxcalls
    /\ \E in \in Inputs(minutes) : GetOhlcvWithArchive(CloseTimes(in[1]), in[2], in[3])

CallLoadOhlcvWithCashe(minutes, maxcalls) ==
    /\ call.n < maxcalls
    /\ \E in \in Inputs(minutes) : LoadOhlcvWithCashe(CloseTimes(in[1]), in[2], in[3])

\* The archive pipeline: any sequence of get_ohlcv_with_archive calls.
Next == CallGetOhlcvWithArchive(Minutes, MaxCalls)

Spec == Init /\ [][Next]_vars

\* The cache in front of the pipeline: load_ohlcv_with_cashe calls, with
\* get_ohlcv_with_archive calls changing the archive in between.
InitCache ==
    /\ archive \in InitialArchives(CacheMinutes)
    /\ cache = NoPickle
    /\ call = NoCall
    /\ ret = NoRet
    /\ fetches = 0

NextCache ==
    \/ CallLoadOhlcvWithCashe(CacheMinutes, MaxCacheCalls)
    \/ CallGetOhlcvWithArchive(CacheMinutes, MaxCacheCalls)

SpecCache == InitCache /\ [][NextCache]_vars

\* The gap filler alone: one get_ohlcv call on any payload whose close times
\* lie on the half-minute grid.
HalfMinutes == {PERIOD + 30 * h : h \in 0..MaxHalf}

InitFill ==
    /\ archive = NoFile
    /\ cache = NoPickle
    /\ call = NoCall
    /\ ret = NoRet
    /\ fetches = 0

CallGetOhlcv ==
    /\ call.n = 0
    /\ \E times \in SUBSET HalfMinutes : GetOhlcv(times)

NextFill == CallGetOhlcv

SpecFill == InitFill /\ [][NextFill]_vars

---------------------------------------------------------------------------
(* What the claims speak of. *)

StrictlyIncreasing(ks) == \A i \in 1..(Len(ks) - 1) : ks[i] < ks[i + 1]
\* A gap-free Series: not empty, each key 60 s after the one before.
GapFree(ks) == Len(ks) > 0 /\ \A i \in 1..(Len(ks) - 1) : ks[i + 1] = ks[i] + 60
RowsAt(df, k) == SelectSeq(df, LAMBDA r : r.OpenTime.epoch = k)
MinuteGrid(lo, hi) == {k \in lo..hi : (k - lo) % 60 = 0}

\* The step is a call of get_ohlcv_with_archive.
IsArchiveCall == call'.op = "get_ohlcv_with_archive" /\ call'.n = call.n + 1
\* The fresh Series of the step's fetch.
FreshOfStep == get_ohlcv(Response(call'.times))
\* The archive location as load_ohlcv reads it before the step.
ArchiveOfStep == load_ohlcv(archive)
\* The step merges old (ArchiveOfStep) and fresh (FreshOfStep): a location is
\* given, something is there and reads as a frame, and the fetch gave a Series.
IsMergeStep(old, fresh) ==
    /\ IsArchiveCall
    /\ call'.archive_file = ARCHIVE_PATH
    /\ os_path_exists(archive)
    /\ old.status = "ok"
    /\ fresh.status = "ok"

\* The fresh Series of the last call, seen from the state after it.
FreshOfCall == get_ohlcv(_get_ohlc_response(call.times, fetches))

(* C1: the merge of a fresh Series into an archive whose last key is K has at
   most one row with key K, and when the fresh Series has a row at K that one
   row is the fresh row. *)
C1_BoundaryRowOnce ==
    [][ \A old \in {ArchiveOfStep}, fresh \in {FreshOfStep} :
          (IsMergeStep(old, fresh) /\ Len(old.value) > 0) =>
              LET K      == old.value[Len(old.value)].OpenTime.epoch
                  atK    == RowsAt(ret'.value, K)
                  freshK == RowsAt(fresh.value, K)
              IN  /\ ret'.status = "ok"
                  /\ Len(atK) <= 1
                  /\ (freshK # <<>> => atK = freshK) ]_vars

(* C2: after get_ohlcv_with_archive calls with archive_update=True on the
   archive location, the returned Series and the persisted archive have
   strictly increasing OpenTime keys. *)
C2_KeysStrictlyIncreasing ==
    (/\ call.op = "get_ohlcv_with_archive"
     /\ call.archive_file = ARCHIVE_PATH
     /\ call.archive_update
     /\ ret.status = "ok")
        => /\ StrictlyIncreasing(Keys(ret.value))
           /\ (load_ohlcv(archive).status = "ok"
                  => StrictlyIncreasing(Keys(load_ohlcv(archive).value)))

\* The last call merged into an archive and persisted the result.
MergedAndPersisted ==
    /\ call.op = "get_ohlcv_with_archive"
    /\ call.archive_file = ARCHIVE_PATH
    /\ call.archive_update
    /\ ret.status = "ok"
    /\ os_path_exists(archive)

(* C3: once a merge is persisted, merging an empty fresh Series against the
   new archive gives, without error, the very Series that was persisted, and
   writing it again leaves the archive file as it is. *)
C3_MergeIdempotent ==
    MergedAndPersisted =>
        LET again == _csv_merge(<<>>, archive)
        IN  /\ again = Ok(ret.value)
            /\ to_csv(again.value) = archive

\* A merge that kept rows of the old archive and rows of the fetch was persisted.
C3_Witness ==
    /\ MergedAndPersisted
    /\ \E i \in 1..Len(ret.value) : ret.value[i] \in Range(FreshOfCall.value)
    /\ \E i \in 1..Len(ret.value) : ret.value[i] \notin Range(FreshOfCall.value)
    /\ _csv_merge(<<>>, archive) = Ok(ret.value)

(* C4: with no archive location, or nothing at the location, the call returns
   the fresh Series unchanged, and with a location and archive_update set it
   writes the fresh Series there as the new archive. *)
C4_FreshBecomesArchive ==
    [][ \A fresh \in {FreshOfStep} :
          (/\ IsArchiveCall
           /\ fresh.status = "ok"
           /\ (call'.archive_file = None \/ ~os_path_exists(archive))) =>
              /\ ret' = fresh
              /\ ((call'.archive_file = ARCHIVE_PATH /\ call'.archive_update)
                      => archive' = to_csv(fresh.value)) ]_vars

\* The two spans touch: neither Series starts more than a minute after the other ends.
Contiguous(a, b) ==
    /\ b[1] <= a[Len(a)] + 60
    /\ a[1] <= b[Len(b)] + 60

\* The keys of the step's result are every minute from the earlier first key
\* to the later last key of the archive (keys a) and the fresh Series (keys b).
SpanIsUnionAndGapFree(a, b) ==
    /\ ret'.status = "ok"
    /\ KeySet(ret'.value) =
          MinuteGrid(Min({a[1], b[1]}), Max({a[Len(a)], b[Len(b)]}))

\* The step merges a gap-free archive Series and a gap-free fresh Series.
IsGapFreeMergeStep(old, fresh) ==
    /\ IsMergeStep(old, fresh)
    /\ \A a \in {Keys(old.value)}, b \in {Keys(fresh.value)} : GapFree(a) /\ GapFree(b)

(* C7 as stated: the merge of a gap-free archive and a gap-free fresh Series
   spans the union of the two spans and has every minute of it. *)
C7_SpanUnionGapFree ==
    [][ \A old \in {ArchiveOfStep}, fresh \in {FreshOfStep} :
          IsGapFreeMergeStep(old, fresh) =>
              \A a \in {Keys(old.value)}, b \in {Keys(fresh.value)} :
                  SpanIsUnionAndGapFree(a, b) ]_vars

(* C7, amended: the same, for an archive and a fresh Series whose spans
   overlap or are adjacent. *)
C7_SpanUnionGapFreeContiguous ==
    [][ \A old \in {ArchiveOfStep}, fresh \in {FreshOfStep} :
          IsGapFreeMergeStep(old, fresh) =>
              \A a \in {Keys(old.value)}, b \in {Keys(fresh.value)} :
                  Contiguous(a, b) => SpanIsUnionAndGapFree(a, b) ]_vars

\* A merge without archive_update (the archive in the state is the one that
\* was merged) of a fresh Series that starts inside the archive and ends after it.
C7_Witness ==
    /\ call.op = "get_ohlcv_with_archive"
    /\ call.archive_file = ARCHIVE_PATH
    /\ ~call.archive_update
    /\ ret.status = "ok"
    /\ load_ohlcv(archive).status = "ok"
    /\ LET a == Keys(load_ohlcv(archive).value)
           b == Keys(FreshOfCall.value)
       IN  /\ GapFree(a) /\ GapFree(b) /\ Contiguous(a, b)
           /\ a[1] < b[1] /\ a[Len(a)] < b[Len(b)]
           /\ KeySet(ret.value) = MinuteGrid(a[1], b[Len(b)])

(* C10: when the archive location holds something that is no valid Series,
   get_ohlcv_with_archive raises, returns no Series and leaves the archive as
   it was, archive_update or not. *)
ValidArchive(file) == file.exists /\ file.header = CSV_HEADER
C10_CorruptArchiveSurfaced ==
    [][ (/\ IsArchiveCall
         /\ call'.archive_file = ARCHIVE_PATH
         /\ os_path_exists(archive)
         /\ ~ValidArchive(archive)) =>
            /\ ret'.status = "raise"
            /\ archive' = archive ]_vars

(* C9: with the cache file present, load_ohlcv_with_cashe returns the cached
   Series as it is, fetches nothing and leaves archive and cache alone,
   whatever archive_file and archive_update are; with the cache file absent it
   runs the pipeline once and stores exactly the Series it returns. *)
C9_CacheMemoization ==
    [][ (call'.op = "load_ohlcv_with_cashe" /\ call'.n = call.n + 1) =>
            IF cache.exists
            THEN /\ ret' = Ok(cache.data)
                 /\ fetches' = fetches
                 /\ ~call'.fetched
                 /\ archive' = archive
                 /\ cache' = cache
            ELSE \A r \in {get_ohlcv_with_archive(Response(call'.times), call'.archive_file,
                                                  call'.archive_update, archive)} :
                     /\ fetches' = fetches + 1
                     /\ ret' = r.ret
                     /\ archive' = r.archive
                     /\ (ret'.status = "ok" => cache' = [exists |-> TRUE, data |-> ret'.value])
                     /\ (ret'.status = "raise" => cache' = cache) ]_vars

\* A cache hit of a call that names the archive and asks for an update, while
\* the archive holds other rows than the cache.
C9_Witness ==
    /\ call.op = "load_ohlcv_with_cashe"
    /\ ~call.fetched
    /\ call.archive_file = ARCHIVE_PATH
    /\ call.archive_update
    /\ ret = Ok(cache.data)
    /\ load_ohlcv(archive).status = "ok"
    /\ load_ohlcv(archive).value # cache.data

\* The normalized Series of the last get_ohlcv call.
NormalizedOfCall == _reformat(_response_to_df(_get_ohlc_response(call.times, fetches)))
MinuteAligned(times) == \A t \in times : t % 60 = 0

(* C5: for a normalized Series with minute-aligned keys spanning [t0, tN] the
   gap-filled Series has (tN - t0)/60 + 1 rows, consecutive keys 60 s apart
   and no key outside [t0, tN]; a one-row Series comes back unchanged. *)
C5_GapFillDensity ==
    (call.op = "get_ohlcv" /\ call.times # {} /\ MinuteAligned(call.times)) =>
        LET in  == NormalizedOfCall
            out == ret.value
            t0  == in[1].OpenTime.epoch
            tN  == in[Len(in)].OpenTime.epoch
        IN  /\ ret.status = "ok"
            /\ Len(out) = (tN - t0) \div 60 + 1
            /\ \A i \in 1..(Len(out) - 1) :
                  out[i + 1].OpenTime.epoch - out[i].OpenTime.epoch = 60
            /\ \A i \in 1..Len(out) :
                  t0 <= out[i].OpenTime.epoch /\ out[i].OpenTime.epoch <= tN
            /\ (Len(in) = 1 => out = in)

\* An aligned Series with a hole of two minutes or more was filled.
C5_Witness ==
    /\ call.op = "get_ohlcv"
    /\ MinuteAligned(call.times)
    /\ Cardinality(call.times) >= 3
    /\ ret.status = "ok"
    /\ Len(ret.value) >= Cardinality(call.times) + 2

\* Row i of the gap-filled Series is synthesized: its minute is not in the input.
Synthesized(i) == ret.value[i].OpenTime.epoch \notin KeySet(NormalizedOfCall)

(* C6: a synthesized row has open = high = low = close, equal to the close of
   the nearest row before it (which is the close of the nearest input row
   before it), and volume = quoteVolume = 0. *)
C6_FlatCandle ==
    (call.op = "get_ohlcv" /\ ret.status = "ok") =>
        \A i \in 1..Len(ret.value) :
            Synthesized(i) =>
                LET in   == NormalizedOfCall
                    r    == ret.value[i]
                    prev == Max({j \in 1..Len(in) : in[j].OpenTime.epoch < r.OpenTime.epoch})
                IN  /\ i > 1
                    /\ r.Open = r.Close /\ r.High = r.Close /\ r.Low = r.Close
                    /\ r.Close = ret.value[i - 1].Close
                    /\ r.Close = in[prev].Close
                    /\ r.Volume = 0 /\ r.QuoteVolume = 0

\* A run of two synthesized rows between two input rows.
C6_Witness ==
    /\ call.op = "get_ohlcv"
    /\ ret.status = "ok"
    /\ \E i \in 2..(Len(ret.value) - 1) :
          /\ Synthesized(i) /\ Synthesized(i + 1)
          /\ ret.value[i + 1].Close = ret.value[i - 1].Close
          /\ ret.value[i + 1].Volume = 0

(* C8: for an empty payload the gap-fill step gives an empty Series without
   raising, so get_ohlcv returns an empty Series. *)
C8_EmptyInEmptyOut ==
    (call.op = "get_ohlcv" /\ call.times = {}) => ret = Ok(<<>>)

===========================================================================
